---- MODULE Spec2Model ----
(***************************************************************************)
(* Place picker: App (selection list kept in React state and in            *)
(* localStorage, geolocation-sorted catalog) and DeleteConfirmation (a     *)
(* dialog body that arms a 3000 ms timeout in its mount effect).           *)
(*                                                                         *)
(* Source: src/src/components/DeleteConfirmation.jsx (lines 1-38 are the   *)
(* DeleteConfirmation component, lines 40-167 are App).                    *)
(*                                                                         *)
(* Modelling decisions:                                                    *)
(*  - JavaScript runs every handler to completion; each handler together   *)
(*    with the render/commit it triggers (state updaters, the keyed        *)
(*    remount of DeleteConfirmation, effect cleanup and effect) is one     *)
(*    action.                                                              *)
(*  - App renders <DeleteConfirmation key={modalKey}/> unconditionally as  *)
(*    the child of <Modal> (lines 130-138); the instance therefore exists  *)
(*    from App's first render on and is replaced only when modalKey        *)
(*    changes.  modal.current.open()/close() only show/hide the dialog.    *)
(*  - A timeout is identified by the key of the instance whose effect      *)
(*    armed it (every instance arms exactly one).                          *)
(*  - Time is a per-instance elapsed counter that saturates at TIMER; a    *)
(*    timeout may fire only once its counter has reached TIMER.            *)
(*  - Besides the per-instance trace, a behaviour records one history,     *)
(*    named by probe: "selection" (lastSelOp and live), "target", "fresh"  *)
(*    or "none", so that each specification carries only the history its   *)
(*    properties read.                                                     *)
(***************************************************************************)
EXTENDS Integers, Sequences, FiniteSets, TLC

VARIABLES
    localStorage,    \* value under key "selectedPlaces": NULL or a JSON text
    pickedPlaces,    \* App state: sequence of place objects
    availablePlaces, \* App state: sequence of place objects
    geo,             \* geolocation request: "pending", "granted", "denied"
    selectedPlace,   \* selectedPlace.current
    modalOpen,       \* whether the dialog behind the modal ref is shown
    modalKey,        \* App state: key of the mounted DeleteConfirmation
    timers,          \* browser timer table: ids of pending timeouts
    age,             \* per instance: ms elapsed since its mount (saturating)
    trace,           \* history, per instance: what happened to it, in order
    lastSelOp,       \* history: last handler that touched the selection
    live,            \* history: ids selected in this session, not removed since
    probe,           \* which history is recorded (never changes)
    target,          \* history, per instance: id its confirmation was started for
    fresh            \* history: ids added by a select since the last start for them

vars == <<localStorage, pickedPlaces, availablePlaces, geo, selectedPlace,
          modalOpen, modalKey, timers, age, trace, lastSelOp, live,
          probe, target, fresh>>

----------------------------------------------------------------------------
(* Bounds *)

NumPlaces == 2
MaxKey == 2
MaxCancels == 2

(* Program constants *)

TIMER == 3000

\* Time advances in steps that stop 1 ms short of a full TIMER period, so
\* that an instance is seen at 0 ms, at TIMER - 1 ms and at >= TIMER ms
TickMs == TIMER - 1

NULL == <<>>
undefined == "undefined"

----------------------------------------------------------------------------
(* Catalog (data.js) and geolocation sort (loc.js) *)

PlaceIds == <<"m1", "m2", "m3", "m4", "m5">>

AVAILABLE_PLACES ==
    [i \in 1..NumPlaces |->
        [id |-> PlaceIds[i], lat |-> (3 * i) % 7, lon |-> (5 * i) % 4]]

Ids == {AVAILABLE_PLACES[i].id : i \in 1..NumPlaces}

Positions == {[lat |-> 0, lon |-> 0], [lat |-> 6, lon |-> 2]}

Abs(x) == IF x < 0 THEN -x ELSE x

calculateDistance(lat1, lon1, lat2, lon2) == Abs(lat1 - lat2) + Abs(lon1 - lon2)

RECURSIVE InsertByDistance(_, _, _, _)
InsertByDistance(sorted, place, lat, lon) ==
    IF sorted = <<>> THEN <<place>>
    ELSE IF calculateDistance(lat, lon, place.lat, place.lon)
              < calculateDistance(lat, lon, Head(sorted).lat, Head(sorted).lon)
         THEN <<place>> \o sorted
         ELSE <<Head(sorted)>> \o InsertByDistance(Tail(sorted), place, lat, lon)

RECURSIVE sortPlacesByDistance(_, _, _)
sortPlacesByDistance(places, lat, lon) ==
    IF places = <<>> THEN <<>>
    ELSE InsertByDistance(
            sortPlacesByDistance(SubSeq(places, 1, Len(places) - 1), lat, lon),
            places[Len(places)], lat, lon)

----------------------------------------------------------------------------
(* Array helpers *)

Elems(arr) == {arr[i] : i \in 1..Len(arr)}

NoDup(arr) == \A i, j \in 1..Len(arr) : arr[i] = arr[j] => i = j

find(id) ==
    IF \E i \in 1..NumPlaces : AVAILABLE_PLACES[i].id = id
    THEN AVAILABLE_PLACES[CHOOSE i \in 1..NumPlaces :
                            /\ AVAILABLE_PLACES[i].id = id
                            /\ \A j \in 1..(i - 1) : AVAILABLE_PLACES[j].id # id]
    ELSE undefined

\* places.map((place) => place.id)
IdsOf(places) == [i \in 1..Len(places) |-> places[i].id]

----------------------------------------------------------------------------
(* JSON text of an array of ids: "[", items separated by ",", "]" *)

RECURSIVE JoinItems(_)
JoinItems(arr) ==
    IF arr = <<>> THEN <<>>
    ELSE IF Len(arr) = 1 THEN <<arr[1]>>
         ELSE <<arr[1], ",">> \o JoinItems(Tail(arr))

JSON_stringify(arr) == <<"[">> \o JoinItems(arr) \o <<"]">>

JSON_parse(text) == [i \in 1..((Len(text) - 1) \div 2) |-> text[2 * i]]

\* JSON.parse(localStorage.getItem("selectedPlaces")) || []
\* (getItem yields null for an absent key; JSON.parse(null) is null)
readStoredIds(store) ==
    IF store = NULL THEN <<>> ELSE JSON_parse(store)

----------------------------------------------------------------------------
(* Module-level load (lines 49-52) and App's first render *)

DupFreeArrays ==
    UNION {{arr \in [1..n -> Ids] : NoDup(arr)} : n \in 0..NumPlaces}

storedIds(store) == readStoredIds(store)

storedPlaces(store) ==
    [i \in 1..Len(storedIds(store)) |-> find(storedIds(store)[i])]

----------------------------------------------------------------------------
(* DeleteConfirmation: timer handling *)

\* timerRef.current of the instance mounted under key k
timerRef(k) == k

clearTimeout(ts, id) == ts \ {id}

\* Mutant: the effect arms no timeout
MountEffectNoTimer(ts, k) == ts

\* useEffect body: timerRef.current = setTimeout(() => onConfirm(), TIMER)
MountEffect(ts, k) == ts \cup {timerRef(k)}

\* Mutant: the effect returns no cleanup, the timeout survives the unmount
EffectCleanupSkipped(ts, k) == ts

\* useEffect cleanup: clearTimeout(timerRef.current)
EffectCleanup(ts, k) == clearTimeout(ts, timerRef(k))

\* Mutant: handleCancel only calls onCancel
CancelClearSkipped(ts, k) == ts

\* handleCancel, first statement: clearTimeout(timerRef.current)
CancelClear(ts, k) == clearTimeout(ts, timerRef(k))

\* Mutant: the timeout is armed with a delay 1 ms short of TIMER
DueEarly(k) == age[k] >= TIMER - 1

\* The deadline of a timeout armed by instance k has been reached
Due(k) == age[k] >= TIMER

Min(a, b) == IF a < b THEN a ELSE b

----------------------------------------------------------------------------
(* App handlers *)

\* Mutant: a place that is already picked is moved to the front
SelectUpdaterMoveToFront(prevPickedPlaces, id) ==
    <<find(id)>> \o SelectSeq(prevPickedPlaces, LAMBDA place : place.id # id)

\* Mutant: the updater prepends without the some() test
SelectUpdaterNoCheck(prevPickedPlaces, id) == <<find(id)>> \o prevPickedPlaces

\* setPickedPlaces updater of handleSelectPlace (lines 84-90)
SelectUpdater(prevPickedPlaces, id) ==
    IF \E i \in 1..Len(prevPickedPlaces) : prevPickedPlaces[i].id = id
    THEN prevPickedPlaces
    ELSE <<find(id)>> \o prevPickedPlaces

\* Mutant: the new id is written behind the stored ids
SelectStoreAppend(store, id) ==
    IF id \notin Elems(readStoredIds(store))
    THEN JSON_stringify(readStoredIds(store) \o <<id>>)
    ELSE store

\* Mutant: the write does not start from the ids read back from the store
SelectStoreOverwrite(store, id) ==
    IF id \notin Elems(readStoredIds(store))
    THEN JSON_stringify(<<id>>)
    ELSE store

\* Mutant: without the "|| []" fallback nothing is written for an absent key
SelectStoreNeedsKey(store, id) ==
    IF store = NULL THEN store
    ELSE IF id \notin Elems(readStoredIds(store))
         THEN JSON_stringify(<<id>> \o readStoredIds(store))
         ELSE store

\* localStorage part of handleSelectPlace (lines 92-98)
SelectStore(store, id) ==
    IF id \notin Elems(readStoredIds(store))
    THEN JSON_stringify(<<id>> \o readStoredIds(store))
    ELSE store

\* Mutant: the updater drops the first place instead of the selected one
RemoveUpdaterDropFirst(prevPickedPlaces, current) ==
    IF prevPickedPlaces = <<>> THEN prevPickedPlaces ELSE Tail(prevPickedPlaces)

\* setPickedPlaces updater of handleRemovePlace (lines 102-104)
RemoveUpdater(prevPickedPlaces, current) ==
    SelectSeq(prevPickedPlaces, LAMBDA place : place.id # current)

\* Mutant: the filter keeps the selected id instead of dropping it
RemoveStoreInverted(store, current) ==
    JSON_stringify(SelectSeq(readStoredIds(store), LAMBDA id : id = current))

\* localStorage part of handleRemovePlace (lines 107-112)
RemoveStore(store, current) ==
    JSON_stringify(SelectSeq(readStoredIds(store), LAMBDA id : id # current))

\* handleRemovePlace: the onConfirm callback
handleRemovePlace ==
    /\ pickedPlaces' = RemoveUpdater(pickedPlaces, selectedPlace)
    /\ modalOpen' = FALSE
    /\ localStorage' = RemoveStore(localStorage, selectedPlace)
    /\ lastSelOp' = IF probe = "selection" THEN "remove" ELSE lastSelOp
    /\ live' = IF probe = "selection" THEN live \ {selectedPlace} ELSE live

\* History entry: event ev observed on instance k, with k's elapsed time
Event(ev, k) == [ev |-> ev, at |-> age[k]]

\* handleStopRemovePlace: the onCancel callback
handleStopRemovePlace == modalOpen' = FALSE

----------------------------------------------------------------------------
(* Initial state: module load, App's first render, first mount of          *)
(* DeleteConfirmation under key 0 (its effect arms a timeout)              *)

InitWith(p) ==
    /\ localStorage \in {NULL} \cup {JSON_stringify(arr) : arr \in DupFreeArrays}
    /\ pickedPlaces = storedPlaces(localStorage)
    /\ availablePlaces = <<>>
    /\ geo = "pending"
    /\ selectedPlace = undefined
    /\ modalOpen = FALSE
    /\ modalKey = 0
    /\ timers = MountEffect({}, 0)
    /\ age = (0 :> 0)
    /\ trace = (0 :> <<>>)
    /\ lastSelOp = "init"
    /\ live = {}
    /\ probe = p
    /\ target = (0 :> undefined)
    /\ fresh = {}

Init == InitWith("selection")

\* The same, recording no history but the per-instance trace
InitBare == InitWith("none")

\* The same, with the key "selectedPlaces" absent from localStorage
InitAbsent == Init /\ localStorage = NULL

\* The same, recording the id every confirmation was started for
InitTarget == InitWith("target")

\* The same, recording the ids added by a select since the last start for them
InitFresh == InitWith("fresh")

----------------------------------------------------------------------------
(* Actions *)

\* getCurrentPosition success callback (lines 62-70)
GeoSuccess ==
    /\ geo = "pending"
    /\ \E position \in Positions :
          availablePlaces' =
              sortPlacesByDistance(AVAILABLE_PLACES, position.lat, position.lon)
    /\ geo' = "granted"
    /\ UNCHANGED <<localStorage, pickedPlaces, selectedPlace, modalOpen,
                   modalKey, timers, age, trace, lastSelOp, live>>
    /\ UNCHANGED <<probe, target, fresh>>

\* geolocation unavailable or denied: the success callback is never called
\* and no error callback was registered (line 62)
GeoUnavailable ==
    /\ geo = "pending"
    /\ geo' = "denied"
    /\ UNCHANGED <<localStorage, pickedPlaces, availablePlaces, selectedPlace,
                   modalOpen, modalKey, timers, age, trace, lastSelOp, live>>
    /\ UNCHANGED <<probe, target, fresh>>

\* Click on a picked place: handleStartRemovePlace(id), then the render in
\* which the key change replaces the DeleteConfirmation instance
StartRemovePlace(id) ==
    /\ id \in Elems(IdsOf(pickedPlaces))
    /\ modalKey < MaxKey
    /\ modalKey' = modalKey + 1
    /\ modalOpen' = TRUE
    /\ selectedPlace' = id
    /\ timers' = MountEffect(EffectCleanup(timers, modalKey), modalKey + 1)
    /\ age' = age @@ ((modalKey + 1) :> 0)
    /\ trace' = [trace EXCEPT ![modalKey] = Append(@, Event("unmount", modalKey))]
                 @@ ((modalKey + 1) :> <<>>)
    /\ UNCHANGED <<localStorage, pickedPlaces, availablePlaces, geo,
                   lastSelOp, live>>
    /\ target' = IF probe = "target"
                 THEN target @@ ((modalKey + 1) :> id) ELSE target
    /\ fresh' = IF probe = "fresh" THEN fresh \ {id} ELSE fresh
    /\ UNCHANGED probe

\* Click on an available place: handleSelectPlace(id)
SelectPlace(id) ==
    /\ id \in Elems(IdsOf(availablePlaces))
    /\ pickedPlaces' = SelectUpdater(pickedPlaces, id)
    /\ localStorage' = SelectStore(localStorage, id)
    /\ lastSelOp' = IF probe # "selection" THEN lastSelOp
                    ELSE IF id \in Elems(IdsOf(pickedPlaces))
                         THEN "selectPresent" ELSE "selectNew"
    /\ live' = IF probe = "selection" THEN live \cup {id} ELSE live
    /\ UNCHANGED <<availablePlaces, geo, selectedPlace, modalOpen, modalKey,
                   timers, age, trace>>
    /\ fresh' = IF probe = "fresh" /\ id \notin Elems(IdsOf(pickedPlaces))
                THEN fresh \cup {id} ELSE fresh
    /\ UNCHANGED <<probe, target>>

\* Click on "No": handleCancel of the mounted instance
Cancel ==
    /\ modalOpen
    /\ timers' = CancelClear(timers, modalKey)
    /\ handleStopRemovePlace
    /\ trace' = [trace EXCEPT ![modalKey] = Append(@, Event("no", modalKey))]
    /\ UNCHANGED <<localStorage, pickedPlaces, availablePlaces, geo,
                   selectedPlace, modalKey, age, lastSelOp, live>>
    /\ UNCHANGED <<probe, target, fresh>>

\* Click on "Yes": onConfirm, i.e. handleRemovePlace, directly
ConfirmYes ==
    /\ modalOpen
    /\ handleRemovePlace
    /\ trace' = [trace EXCEPT ![modalKey] = Append(@, Event("yes", modalKey))]
    /\ UNCHANGED <<availablePlaces, geo, selectedPlace, modalKey, timers, age>>
    /\ UNCHANGED <<probe, target, fresh>>

\* The timeout armed by instance k fires: () => { onConfirm(); }
TimerExpire(k) ==
    /\ k \in timers
    /\ Due(k)
    /\ timers' = timers \ {k}
    /\ handleRemovePlace
    /\ trace' = [trace EXCEPT ![k] = Append(@, Event("expiry", k))]
    /\ UNCHANGED <<availablePlaces, geo, selectedPlace, modalKey, age>>
    /\ UNCHANGED <<probe, target, fresh>>

\* Wall-clock time passes by d ms
Tick(d) ==
    /\ \E k \in DOMAIN age : age[k] < TIMER
    /\ age' = [k \in DOMAIN age |-> Min(age[k] + d, TIMER)]
    /\ UNCHANGED <<localStorage, pickedPlaces, availablePlaces, geo,
                   selectedPlace, modalOpen, modalKey, timers, trace,
                   lastSelOp, live>>
    /\ UNCHANGED <<probe, target, fresh>>

\* Number of times handleCancel has run on instance k
Cancels(k) ==
    Cardinality({i \in 1..Len(trace[k]) : trace[k][i].ev = "no"})

\* handleCancel of the mounted instance invoked again after it has already
\* run (the dialog is closed by then; no button click leads here)
CancelAgain ==
    /\ ~modalOpen
    /\ Cancels(modalKey) >= 1
    /\ Cancels(modalKey) < MaxCancels
    /\ timers' = CancelClear(timers, modalKey)
    /\ handleStopRemovePlace
    /\ trace' = [trace EXCEPT ![modalKey] = Append(@, Event("no", modalKey))]
    /\ UNCHANGED <<localStorage, pickedPlaces, availablePlaces, geo,
                   selectedPlace, modalKey, age, lastSelOp, live>>
    /\ UNCHANGED <<probe, target, fresh>>

Next ==
    \/ GeoSuccess
    \/ GeoUnavailable
    \/ \E id \in Ids : StartRemovePlace(id)
    \/ \E id \in Ids : SelectPlace(id)
    \/ Cancel
    \/ ConfirmYes
    \/ \E k \in 0..MaxKey : TimerExpire(k)
    \/ Tick(TickMs)

Spec == Init /\ [][Next]_vars

TypeOK ==
    /\ readStoredIds(localStorage) \in Seq(Ids)
    /\ IdsOf(pickedPlaces) \in Seq(Ids)
    /\ geo \in {"pending", "granted", "denied"}
    /\ selectedPlace \in Ids \cup {undefined}
    /\ modalOpen \in BOOLEAN
    /\ modalKey \in 0..MaxKey
    /\ timers \subseteq 0..modalKey
    /\ DOMAIN age = 0..modalKey
    /\ DOMAIN trace = 0..modalKey
    /\ lastSelOp \in {"init", "selectNew", "selectPresent", "remove"}
    /\ live \subseteq Ids

\* App loaded with the key "selectedPlaces" absent
SpecAbsent == InitAbsent /\ [][Next]_vars

\* App, recording the id every confirmation was started for
SpecTarget == InitTarget /\ [][Next]_vars

\* App, recording the ids added by a select since the last start for them
SpecFresh == InitFresh /\ [][Next]_vars

\* App, with handleCancel also invoked directly a second time
SpecDirect == InitBare /\ [][Next \/ CancelAgain]_vars

\* FairSpec without the selection history
FairSpecBare ==
    /\ InitBare /\ [][Next]_vars
    /\ WF_vars(Tick(TickMs))
    /\ \A k \in 0..MaxKey : WF_vars(TimerExpire(k))

\* Timers are fired by the browser and time passes; user input is not fair
FairSpec ==
    /\ Spec
    /\ WF_vars(Tick(TickMs))
    /\ \A k \in 0..MaxKey : WF_vars(TimerExpire(k))

----------------------------------------------------------------------------
(* Properties *)

HasEv(k, ev) == \E i \in 1..Len(trace[k]) : trace[k][i].ev = ev

Before(k, ev1, ev2) ==
    \E i, j \in 1..Len(trace[k]) :
        i < j /\ trace[k][i].ev = ev1 /\ trace[k][j].ev = ev2

\* C1: after a click on "Yes" the timeout armed by the same instance never
\* invokes onConfirm again (no instance sees "yes" followed by "expiry").
C1_NoExpiryAfterManualConfirm ==
    \A k \in DOMAIN trace : ~Before(k, "yes", "expiry")

\* C2: at most one deadline timeout is pending in every reachable state.
C2_AtMostOneTimerPending == Cardinality(timers) <= 1

\* C2 witness: a second restart tore down an instance whose timeout was
\* still pending and not yet due, and the new instance's timeout is armed.
C2_Witness ==
    /\ modalKey >= 2
    /\ Len(trace[modalKey - 1]) = 1
    /\ trace[modalKey - 1][1].ev = "unmount"
    /\ trace[modalKey - 1][1].at < TIMER
    /\ timers = {timerRef(modalKey)}

\* C3: once "No" was clicked before the deadline of an instance, that
\* instance has no pending timeout and sees no onConfirm ("yes" or
\* "expiry") afterwards, however old it gets.
C3_CancelPreventsConfirm ==
    \A k \in DOMAIN trace :
        \A i \in 1..Len(trace[k]) :
            (trace[k][i].ev = "no" /\ trace[k][i].at < TIMER) =>
                /\ timerRef(k) \notin timers
                /\ \A j \in (i + 1)..Len(trace[k]) :
                      trace[k][j].ev \notin {"yes", "expiry"}

\* C3 witness: an instance cancelled before its deadline has outlived it.
C3_Witness ==
    \E k \in DOMAIN trace :
        /\ Len(trace[k]) >= 1
        /\ trace[k][1].ev = "no"
        /\ trace[k][1].at < TIMER
        /\ age[k] >= TIMER

\* Instance k was neither cancelled, nor confirmed by hand, nor replaced
Quiet(k) == ~HasEv(k, "no") /\ ~HasEv(k, "yes") /\ ~HasEv(k, "unmount")

\* C4: for an instance started by handleStartRemovePlace and left alone,
\* onConfirm is not invoked before TIMER ms have elapsed, the timeout stays
\* pending until it fires, and it fires at most once and is not pending
\* again afterwards.
C4_ExpiryExactlyOnceAtDeadline ==
    \A k \in 1..modalKey :
        Quiet(k) =>
            /\ age[k] < TIMER => trace[k] = <<>>
            /\ \A i \in 1..Len(trace[k]) :
                  trace[k][i].ev = "expiry" /\ trace[k][i].at >= TIMER
            /\ Len(trace[k]) <= 1
            /\ (trace[k] = <<>>) <=> (timerRef(k) \in timers)

\* C4 witness: an undisturbed started instance whose timeout has fired.
C4_Witness ==
    \E k \in 1..modalKey :
        /\ Quiet(k)
        /\ Len(trace[k]) = 1
        /\ trace[k][1].ev = "expiry"
        /\ timerRef(k) \notin timers

\* C5: a timeout is pending only if a confirmation was started and the
\* modal is open.
C5_PendingOnlyWhileStartedAndOpen ==
    timers # {} => (modalKey >= 1 /\ modalOpen)

\* C6: an instance torn down while its timeout was pending has no pending
\* timeout and sees no callback after the teardown; the teardown step itself
\* runs neither onConfirm (selection and store untouched) nor onCancel (the
\* modal is not closed).
C6_TeardownClearsSilently ==
    /\ [](\A k \in DOMAIN trace :
            \A i \in 1..Len(trace[k]) :
                trace[k][i].ev = "unmount" =>
                    /\ i = Len(trace[k])
                    /\ timerRef(k) \notin timers)
    /\ [][modalKey' # modalKey =>
            /\ pickedPlaces' = pickedPlaces
            /\ localStorage' = localStorage
            /\ modalOpen'
            /\ \A k \in DOMAIN trace :
                  trace'[k] = IF k = modalKey
                              THEN Append(trace[k], Event("unmount", k))
                              ELSE trace[k]]_vars

\* C6 witness: an instance torn down with its timeout pending and not due
\* has since passed its original deadline.
C6_Witness ==
    \E k \in DOMAIN trace :
        /\ Len(trace[k]) = 1
        /\ trace[k][1].ev = "unmount"
        /\ trace[k][1].at < TIMER
        /\ age[k] >= TIMER

\* C7: neither pickedPlaces nor the persisted id array holds an id twice.
C7_NoDuplicateIds ==
    /\ NoDup(IdsOf(pickedPlaces))
    /\ NoDup(readStoredIds(localStorage))

\* C7 witness: an id already picked has just been selected again.
C7_Witness ==
    /\ lastSelOp = "selectPresent"
    /\ pickedPlaces # <<>>

\* C8: the persisted id array equals, in order, the ids of pickedPlaces.
C8_StoreMatchesPickedPlaces ==
    readStoredIds(localStorage) = IdsOf(pickedPlaces)

\* C8 witness: after a removal by "Yes" and a removal by timeout, a new id
\* was selected in front of another one.
C8_Witness ==
    /\ lastSelOp = "selectNew"
    /\ Len(pickedPlaces) >= 2
    /\ \E k \in DOMAIN trace : HasEv(k, "yes")
    /\ \E k \in DOMAIN trace : HasEv(k, "expiry")

\* C9 (as claimed): a state is reached in which an id that was selected
\* and not removed since is missing from the persisted array.
C9_LostSelectionReached ==
    <>(~(live \subseteq Elems(readStoredIds(localStorage))))

\* C9 (amended): handlers run to completion, so the read-modify-write of
\* handleSelectPlace is never interleaved: every id selected in this
\* session and not removed since is in the persisted array.
C9_NoLostSelection ==
    live \subseteq Elems(readStoredIds(localStorage))

\* C9 witness: two distinct ids were selected with no time passing between
\* App's mount and the second selection.
C9_Witness ==
    /\ Cardinality(live) >= 2
    /\ lastSelOp = "selectNew"
    /\ age[0] = 0

\* C10: when geolocation supplies no position, availablePlaces still holds
\* every entity of AVAILABLE_PLACES.
C10_CatalogOfferedWithoutPosition ==
    geo = "denied" =>
        \A i \in 1..NumPlaces : AVAILABLE_PLACES[i] \in Elems(availablePlaces)

----------------------------------------------------------------------------
(* Steps, recognised by the history they leave *)

\* Instance k has just seen event ev
Saw(k, ev) ==
    /\ Len(trace'[k]) = Len(trace[k]) + 1
    /\ trace'[k][Len(trace'[k])].ev = ev

\* handleRemovePlace has just run (from "Yes" or from a timeout)
RemoveStep == \E k \in DOMAIN trace : Saw(k, "yes") \/ Saw(k, "expiry")

\* C11: with the key absent the initial pickedPlaces is empty, and as long
\* as the key is absent a handler either leaves it absent (no selection
\* handler ran), or is a select of x that persists exactly [x] and shows
\* exactly x, or is a remove that persists [] and shows nothing.
C11_AbsentKeyIsEmptySelection ==
    /\ [](localStorage = NULL => (pickedPlaces = <<>> /\ lastSelOp = "init"))
    /\ [][localStorage = NULL =>
            \/ /\ localStorage' = NULL
               /\ pickedPlaces' = <<>>
               /\ lastSelOp' = "init"
            \/ \E x \in Ids :
                  /\ lastSelOp' = "selectNew"
                  /\ localStorage' = JSON_stringify(<<x>>)
                  /\ pickedPlaces' = <<find(x)>>
            \/ /\ lastSelOp' = "remove"
               /\ localStorage' = JSON_stringify(<<>>)
               /\ pickedPlaces' = <<>>]_vars

\* C11 witness: loaded with the key absent, the first selection handler to
\* run was a select, and exactly its id is persisted and shown.
C11_Witness ==
    /\ lastSelOp = "selectNew"
    /\ Len(pickedPlaces) = 1
    /\ localStorage = JSON_stringify(IdsOf(pickedPlaces))
    /\ \A k \in DOMAIN trace : ~HasEv(k, "yes") /\ ~HasEv(k, "expiry")

\* C12: whenever handleRemovePlace runs (from "Yes" or from a timeout), the
\* id passed to the most recent handleStartRemovePlace is absent from
\* pickedPlaces and from the persisted array afterwards, all other ids stay
\* in both in their previous order, and the modal is closed.
C12_ConfirmRemovesStartedId ==
    [][RemoveStep =>
          /\ IdsOf(pickedPlaces') =
                SelectSeq(IdsOf(pickedPlaces), LAMBDA id : id # target[modalKey])
          /\ readStoredIds(localStorage') =
                SelectSeq(readStoredIds(localStorage),
                          LAMBDA id : id # target[modalKey])
          /\ target[modalKey] \notin Elems(IdsOf(pickedPlaces'))
          /\ target[modalKey] \notin Elems(readStoredIds(localStorage'))
          /\ ~modalOpen']_vars

\* C12 witness: the current confirmation was confirmed, its id is gone,
\* another id is still selected and the modal is closed.
C12_Witness ==
    /\ modalKey >= 1
    /\ HasEv(modalKey, "yes") \/ HasEv(modalKey, "expiry")
    /\ target[modalKey] \in Ids
    /\ target[modalKey] \notin Elems(IdsOf(pickedPlaces))
    /\ pickedPlaces # <<>>
    /\ ~modalOpen

\* handleSelectPlace has just run: the only handler that sets lastSelOp to a
\* select and leaves clock, instance histories, geolocation and key alone
SelectStep ==
    /\ lastSelOp' \in {"selectNew", "selectPresent"}
    /\ UNCHANGED <<age, trace, geo, modalKey>>

\* C13: a select of an absent id puts it in front of pickedPlaces and of the
\* persisted array with the previous elements following in unchanged order;
\* a select of an id already present leaves both lists unchanged.
C13_SelectPrependsOrKeeps ==
    [][SelectStep =>
          /\ lastSelOp' = "selectNew" =>
                \E id \in live' \ Elems(IdsOf(pickedPlaces)) :
                    /\ IdsOf(pickedPlaces') = <<id>> \o IdsOf(pickedPlaces)
                    /\ readStoredIds(localStorage') =
                          <<id>> \o readStoredIds(localStorage)
          /\ lastSelOp' = "selectPresent" =>
                /\ pickedPlaces' = pickedPlaces
                /\ readStoredIds(localStorage') = readStoredIds(localStorage)]_vars

\* C13 witness: the only id selected in this session was already present
\* and sits behind another one: the select did not move it to the front.
C13_Witness ==
    /\ lastSelOp = "selectPresent"
    /\ Len(pickedPlaces) >= 2
    /\ live = {pickedPlaces[2].id}

\* Instance k replaced an instance that was itself started by
\* handleStartRemovePlace and was still waiting (not cancelled, not
\* confirmed, not expired) when it was torn down
Restarted(k) ==
    /\ k >= 2
    /\ k \in DOMAIN trace
    /\ Len(trace[k - 1]) = 1
    /\ trace[k - 1][1].ev = "unmount"

\* C14: when a confirmation for B (instance k) is started while the one for
\* A (instance k - 1) is pending, A's timeout never fires, B's timeout does
\* not invoke onConfirm before TIMER ms after the start for B, and its
\* expiry removes B only: every other id, A included, stays selected and
\* persisted.
C14_RestartRearmsDeadline ==
    /\ [](\A k \in DOMAIN trace :
            Restarted(k) =>
                /\ timerRef(k - 1) \notin timers
                /\ ~HasEv(k - 1, "expiry")
                /\ age[k] < TIMER => ~HasEv(k, "expiry")
                /\ \A i \in 1..Len(trace[k]) :
                      trace[k][i].ev = "expiry" => trace[k][i].at >= TIMER)
    /\ [][\A k \in DOMAIN trace :
            (Restarted(k) /\ Saw(k, "expiry")) =>
                /\ target[k] \notin Elems(IdsOf(pickedPlaces'))
                /\ target[k] \notin Elems(readStoredIds(localStorage'))
                /\ \A a \in Ids \ {target[k]} :
                      /\ a \in Elems(IdsOf(pickedPlaces))
                            <=> a \in Elems(IdsOf(pickedPlaces'))
                      /\ a \in Elems(readStoredIds(localStorage))
                            <=> a \in Elems(readStoredIds(localStorage'))]_vars

\* C14 witness: the confirmation for A was replaced before its deadline by
\* one for a different id B; A's original deadline has passed, B's timeout
\* has fired, B is gone and A is still selected and persisted.
C14_Witness ==
    \E k \in DOMAIN trace :
        /\ Restarted(k)
        /\ trace[k - 1][1].at < TIMER
        /\ age[k - 1] >= TIMER
        /\ Len(trace[k]) = 1
        /\ trace[k][1].ev = "expiry"
        /\ target[k - 1] # target[k]
        /\ target[k] \notin Elems(IdsOf(pickedPlaces))
        /\ target[k - 1] \in Elems(IdsOf(pickedPlaces))
        /\ target[k - 1] \in Elems(readStoredIds(localStorage))

\* C15: every run of handleCancel removes the instance's timeout from the
\* timer table if it is there, closes the modal, and leaves pickedPlaces and
\* the persisted array as they were; run again with no timeout pending it
\* changes neither timers nor selection.
C15_CancelClearsAndKeepsSelection ==
    [][Saw(modalKey, "no") =>
          /\ timers' = timers \ {timerRef(modalKey)}
          /\ timerRef(modalKey) \notin timers => timers' = timers
          /\ ~modalOpen'
          /\ pickedPlaces' = pickedPlaces
          /\ localStorage' = localStorage
          /\ selectedPlace' = selectedPlace]_vars

\* C15 witness: handleCancel has run twice on the mounted instance, the
\* second time with no timeout pending; places are still selected.
C15_Witness ==
    /\ Cancels(modalKey) = 2
    /\ timers = {}
    /\ ~modalOpen
    /\ pickedPlaces # <<>>
    /\ selectedPlace \in Elems(IdsOf(pickedPlaces))

\* The id of the current confirmation is gone from pickedPlaces and from the
\* persisted array, the modal is closed and no timeout is pending
Resolved ==
    /\ selectedPlace \notin Elems(IdsOf(pickedPlaces))
    /\ selectedPlace \notin Elems(readStoredIds(localStorage))
    /\ ~modalOpen
    /\ timers = {}

\* C16: under timer fairness, every confirmation just started by
\* handleStartRemovePlace (instance k mounted, nothing has happened to it
\* yet) leads to a state in which it was cancelled, or replaced by a
\* restart, or is resolved.
C16_StartedEventuallyResolved ==
    \A k \in 1..MaxKey :
        (modalKey = k /\ trace[k] = <<>>)
            ~> (modalKey # k \/ Cancels(k) >= 1 \/ Resolved)

\* C16 witness: a confirmation that was neither cancelled nor confirmed by
\* hand nor restarted is resolved by its timeout.
C16_Witness ==
    /\ modalKey >= 1
    /\ Len(trace[modalKey]) = 1
    /\ trace[modalKey][1].ev = "expiry"
    /\ selectedPlace \in Ids
    /\ Resolved

\* C17: an id that was absent and has been selected since the last
\* handleStartRemovePlace for it is in pickedPlaces and in the persisted
\* array (it can only be removed by a confirmation started for it after
\* that select).
C17_SelectedStaysUntilStartedAgain ==
    /\ fresh \subseteq Elems(IdsOf(pickedPlaces))
    /\ fresh \subseteq Elems(readStoredIds(localStorage))

\* C18: a timeout that fires while selectedPlace.current is still undefined
\* removes nothing: pickedPlaces keeps every element and the persisted array
\* keeps every id.
C18_ExpiryWithoutTargetRemovesNothing ==
    [][(selectedPlace = undefined /\ \E k \in DOMAIN trace : Saw(k, "expiry")) =>
          /\ pickedPlaces' = pickedPlaces
          /\ readStoredIds(localStorage') = readStoredIds(localStorage)]_vars

\* C18 witness: the timeout armed at App's first mount has fired with no
\* confirmation ever started, and the places loaded at startup are still
\* selected and persisted.
C18_Witness ==
    /\ modalKey = 0
    /\ selectedPlace = undefined
    /\ Len(trace[0]) = 1
    /\ trace[0][1].ev = "expiry"
    /\ pickedPlaces # <<>>
    /\ readStoredIds(localStorage) = IdsOf(pickedPlaces)

====
